---- MODULE Spec2Model ----
(***************************************************************************)
(* A model of libstd/run.rs: one child process, the handle (run::Process)  *)
(* that owns it, the two drain tasks of finish_with_output, the result     *)
(* channel between them and the calling task, and the child itself with    *)
(* its pipes.                                                              *)
(***************************************************************************)
EXTENDS Integers, Sequences, FiniteSets, TLC

(* ---------------------------- bounds ----------------------------------- *)
MaxWrites == 2       \* the child writes at most this many bytes
PipeCap   == 1       \* bytes a pipe holds before the child's write blocks
MaxOps    == 2       \* lifecycle operations the caller performs on a handle

(* --------------------------- vocabulary -------------------------------- *)
None      == "None"
Streams   == 0 .. 2                 \* io[0] stdin, io[1] stdout, io[2] stderr
Outs      == 1 .. 2
ExitCodes == {0, 255}
ExitStatus(n) == <<"ExitStatus", n>>
ExitSignal(n) == <<"ExitSignal", n>>
NoExit    == <<"None", 0>>          \* no exit result yet
PleaseExitSignal == 15
MustDieSignal    == 9
Fds       == {None, "fd"}           \* Option<c_int> of ProcessOptions
Programs  == UNION {[1 .. k -> Outs] : k \in 0 .. MaxWrites}

VARIABLES
  launcher,     \* who made the handle: "new", "process_status", "process_output"
  handle,       \* "unborn", "None" (spawn failed), "Some", "dropped"
  rtio,         \* the StdioContainer given to the child for each stream
  io,           \* self.inner.io: the parent's endpoint of each stream
  exit_status,  \* the exit result cached by the inner process, or None
  op,           \* the operation the calling task is inside
  pc,           \* its position in that operation
  status,       \* finish_with_output's local `status`
  got,          \* the values p.recv() has returned so far
  chan,         \* the SharedChan: results sent and not yet received
  wpc,          \* each drain task: "off", "run", "done"
  wend,         \* the endpoint moved into each drain task
  wbuf,         \* what the task's read_to_end has accumulated
  child,        \* "none", "running", "exited"
  disp,         \* how the child terminated
  prog,         \* the child's writes, in order, by stream
  code,         \* the code the child exits with
  waitsEof,     \* the child exits only after end-of-input on a piped stdin
  cpos,         \* the child's next write
  pipe,         \* bytes in flight in the stdout and stderr pipes
  written,      \* bytes the child has put into each pipe
  rd,           \* bytes the caller has read through output() / error()
  sent,         \* signals requested through inner.signal
  termPending,  \* a graceful request the child has not acted on
  rets,         \* the values the operations have returned (close_input and
                \* close_outputs return the unit value, logged with no status)
  result,       \* process_status / process_output returned "None", or
                \* "Some" of the last value in rets
  failed,       \* the calling task failed (fail!)
  osWaits,      \* how many times the OS wait has been invoked
  nOps

ctlVars    == <<op, pc, status, got, rets, result, failed, nOps>>
hdlVars    == <<launcher, handle, rtio, io, exit_status, osWaits>>
workerVars == <<chan, wpc, wend, wbuf>>
childVars  == <<child, disp, prog, code, waitsEof, cpos, pipe, written,
                termPending>>
vars == <<launcher, handle, rtio, io, exit_status, op, pc, status, got, chan,
          wpc, wend, wbuf, child, disp, prog, code, waitsEof, cpos, pipe,
          written, rd, sent, termPending, rets, result, failed, osWaits, nOps>>

(* ------------------------- Process::new -------------------------------- *)
\* fn rtify inside Process::new
rtify(fd, input) ==
  IF fd # None THEN "InheritFd" ELSE "CreatePipe"

\* the rtio array built by Process::new
RtioOf(opts) ==
  [i \in Streams |-> CASE i = 0 -> rtify(opts.in_fd, TRUE)
                       [] i = 1 -> rtify(opts.out_fd, FALSE)
                       [] i = 2 -> rtify(opts.err_fd, FALSE)]

\* ProcessOptions::new(): None in every field
ProcessOptionsNew == [in_fd |-> None, out_fd |-> None, err_fd |-> None]

\* the options process_status passes: the three standard descriptors, dup'ed
ProcessStatusOptionsPiped == [in_fd |-> "fd", out_fd |-> None, err_fd |-> "fd"]
ProcessStatusOptions == [in_fd |-> "fd", out_fd |-> "fd", err_fd |-> "fd"]

AllOptions == [in_fd : Fds, out_fd : Fds, err_fd : Fds]

\* the inner process keeps a parent endpoint exactly for the created pipes
InnerIo(rt) ==
  [i \in Streams |-> IF rt[i] = "CreatePipe" THEN "Some" ELSE None]

\* the match on process::Process::new's result at the end of Process::new
NewResultAlwaysSome(inner) == "Some"
NewResult(inner) ==
  IF inner = "Some" THEN "Some" ELSE None

Last(q) == q[Len(q)]
Ret(o, st, outs, errs) == [op |-> o, status |-> st, output |-> outs, error |-> errs]

Init ==
  /\ launcher = "none" /\ handle = "unborn"
  /\ rtio = [i \in Streams |-> "InheritFd"]
  /\ io = [i \in Streams |-> None]
  /\ exit_status = NoExit
  /\ op = "none" /\ pc = "idle" /\ status = NoExit /\ got = <<>>
  /\ chan = <<>>
  /\ wpc = [w \in Outs |-> "off"]
  /\ wend = [w \in Outs |-> None]
  /\ wbuf = [w \in Outs |-> <<>>]
  /\ child = "none" /\ disp = NoExit /\ prog = <<>> /\ code = 0
  /\ waitsEof = FALSE /\ cpos = 1
  /\ pipe = [s \in Outs |-> <<>>]
  /\ written = [s \in Outs |-> <<>>]
  /\ rd = [s \in Outs |-> <<>>]
  /\ sent = <<>> /\ termPending = FALSE
  /\ rets = <<>> /\ result = "pending" /\ failed = None
  /\ osWaits = 0 /\ nOps = 0

(* ------------------------ pieces of the methods ------------------------ *)
\* Option::take on one element of self.inner.io
takeToggle(ioArr, i) ==
  [ioArr EXCEPT ![i] = IF @ = None THEN "Some" ELSE None]
take(ioArr, i) == [ioArr EXCEPT ![i] = None]

\* which element of self.inner.io each accessor uses
AccessorIoSlip(name) ==
  CASE name = "input" -> 0 [] name = "output" -> 1 [] name = "error" -> 1
AccessorIo(name) ==
  CASE name = "input" -> 0 [] name = "output" -> 1 [] name = "error" -> 2
Accessors == {"input", "output", "error"}

\* inner.wait() returns the cached exit result, when there is one, without
\* asking the OS again
WaitUncached == FALSE
WaitCached == exit_status # NoExit

\* the order of statements in finish_with_output after the two tasks are
\* spawned: self.finish(), p.recv(), p.recv(), the match
fwo_next_recv_first(p) ==
  CASE p = "spawn" -> "recv1" [] p = "recv1" -> "recv2"
    [] p = "recv2" -> "wait"  [] p = "wait"  -> "match"
fwo_next(p) ==
  CASE p = "spawn" -> "wait"  [] p = "wait"  -> "recv1"
    [] p = "recv1" -> "recv2" [] p = "recv2" -> "match"

\* control reaches statement p of finish_with_output
EnterFwo(p) ==
  IF p = "wait" /\ WaitCached
    THEN /\ pc' = fwo_next("wait")
         /\ status' = exit_status
    ELSE /\ pc' = p
         /\ UNCHANGED status

\* the tag each drain task puts on its result: 2 for the task that owns
\* `error`, 1 for the task that owns `output`, in both arms of its match
SendTagSlip(w, e) == IF e = None THEN 1 ELSE w
SendTagCopied(w, e) == 2
SendTag(w, e) == w

\* a drain task is an independent task: it runs as soon as it is spawned
RunnableInTurn(w) == wpc[w] = "run" /\ (w = 2 => wpc[1] = "done")
Runnable(w) == wpc[w] = "run"

\* the match on (p.recv(), p.recv())
demuxSlip(m1, m2) ==
  CASE m1[1] = 1 /\ m2[1] = 2 -> [ok |-> TRUE, errs |-> m2[2], outs |-> m1[2]]
    [] m1[1] = 2 /\ m2[1] = 1 -> [ok |-> TRUE, errs |-> m2[2], outs |-> m1[2]]
    [] OTHER                  -> [ok |-> FALSE, errs |-> <<>>, outs |-> <<>>]
demuxArrival(m1, m2) ==
  CASE m1[1] = 1 /\ m2[1] = 2 -> [ok |-> TRUE, errs |-> m2[2], outs |-> m1[2]]
    [] m1[1] = 2 /\ m2[1] = 1 -> [ok |-> TRUE, errs |-> m2[2], outs |-> m1[2]]
    [] OTHER                  -> [ok |-> TRUE, errs |-> m2[2], outs |-> m1[2]]
demux(m1, m2) ==
  CASE m1[1] = 1 /\ m2[1] = 2 -> [ok |-> TRUE, errs |-> m2[2], outs |-> m1[2]]
    [] m1[1] = 2 /\ m2[1] = 1 -> [ok |-> TRUE, errs |-> m1[2], outs |-> m2[2]]
    [] OTHER                  -> [ok |-> FALSE, errs |-> <<>>, outs |-> <<>>]

\* finish_with_output up to the call of self.finish(): close_input, the two
\* take()s, the channel, the two tasks
FwoCallKeepsInput(curIo) ==
  /\ io' = take(take(curIo, 1), 2)
  /\ wend' = [w \in Outs |-> curIo[w]]
  /\ wpc' = [w \in Outs |-> "run"]
  /\ wbuf' = [w \in Outs |-> <<>>]
  /\ chan' = <<>>
  /\ got' = <<>>
  /\ op' = "finish_with_output"
  /\ EnterFwo(fwo_next("spawn"))
FwoCall(curIo) ==
  /\ io' = take(take(take(curIo, 0), 1), 2)
  /\ wend' = [w \in Outs |-> curIo[w]]
  /\ wpc' = [w \in Outs |-> "run"]
  /\ wbuf' = [w \in Outs |-> <<>>]
  /\ chan' = <<>>
  /\ got' = <<>>
  /\ op' = "finish_with_output"
  /\ EnterFwo(fwo_next("spawn"))

\* the OS creates the child, or does not
Create(l, opts, ok, p, c, e) ==
  /\ handle = "unborn"
  /\ l = "process_status" => opts = ProcessStatusOptions
  /\ l = "process_output" => opts = ProcessOptionsNew
  /\ ~ok => p = <<>> /\ c = 0 /\ ~e
  /\ e => opts = ProcessOptionsNew
  /\ launcher' = l
  /\ handle' = NewResult(IF ok THEN "Some" ELSE None)
  /\ rtio' = RtioOf(opts)
  /\ child' = IF ok THEN "running" ELSE "none"
  /\ prog' = p /\ code' = c /\ waitsEof' = e
  /\ UNCHANGED <<exit_status, osWaits, disp, cpos, pipe, written, rd, sent,
                 termPending, rets, failed, nOps>>

(* ----------------------------- spawning -------------------------------- *)
\* Process::new called by the user of the handle
New(opts, ok, p, c, e) ==
  /\ Create("new", opts, ok, p, c, e)
  /\ io' = IF ok THEN InnerIo(RtioOf(opts)) ELSE io
  /\ pc' = IF handle' = "Some" THEN "idle" ELSE "done"
  /\ UNCHANGED <<op, status, got, result, workerVars>>

\* process_status: Process::new with the inherited descriptors, then finish()
ProcessStatus(ok, p, c, e) ==
  /\ Create("process_status", ProcessStatusOptions, ok, p, c, e)
  /\ io' = IF ok THEN InnerIo(RtioOf(ProcessStatusOptions)) ELSE io
  /\ IF handle' = "Some"
       THEN /\ op' = "finish" /\ pc' = "wait"
            /\ UNCHANGED result
       ELSE /\ result' = None /\ pc' = "done"
            /\ UNCHANGED op
  /\ UNCHANGED <<status, got, workerVars>>

\* process_output: Process::new with ProcessOptions::new(), then
\* finish_with_output()
ProcessOutput(ok, p, c, e) ==
  /\ Create("process_output", ProcessOptionsNew, ok, p, c, e)
  /\ IF handle' = "Some"
       THEN /\ FwoCall(IF ok THEN InnerIo(RtioOf(ProcessOptionsNew)) ELSE io)
            /\ UNCHANGED result
       ELSE /\ result' = None /\ pc' = "done"
            /\ UNCHANGED <<io, op, status, got, workerVars>>
(* ------------------------ the caller's operations ---------------------- *)
CanCall ==
  /\ launcher = "new" /\ handle = "Some" /\ pc = "idle" /\ failed = None
  /\ nOps < MaxOps

\* what the calling task does once self.finish() has returned st inside
\* operation o
AfterFinish(o, st) ==
  CASE o = "finish" ->
         /\ rets' = Append(rets, Ret("finish", st, <<>>, <<>>))
         /\ IF launcher = "process_status"
              THEN result' = "Some" /\ handle' = "dropped" /\ pc' = "done"
              ELSE pc' = "idle" /\ UNCHANGED <<result, handle>>
         /\ UNCHANGED status
    [] o = "finish_with_output" ->
         /\ status' = st
         /\ pc' = fwo_next("wait")
         /\ UNCHANGED <<rets, result, handle>>
    [] o \in {"destroy", "force_destroy"} ->
         /\ pc' = "idle"
         /\ UNCHANGED <<rets, result, handle, status>>
    [] o = "drop" ->
         /\ handle' = "dropped" /\ pc' = "done"
         /\ UNCHANGED <<rets, result, status>>

\* self.finish() called inside operation o: self.inner.wait()
finish(o) ==
  /\ op' = o
  /\ IF WaitCached
       THEN AfterFinish(o, exit_status)
       ELSE pc' = "wait" /\ UNCHANGED <<rets, result, handle, status>>

\* input(), output(), error(): get_mut_ref on the stream's element of io
Accessor(name) ==
  /\ CanCall
  /\ nOps' = nOps + 1
  /\ op' = name
  /\ IF io[AccessorIo(name)] = "Some"
       THEN UNCHANGED failed
       ELSE failed' = name
  /\ UNCHANGED <<rets, hdlVars, workerVars, childVars, pc, status, got, result, rd,
                 sent>>

\* one read through the Reader that output() or error() returns
ReaderRead(s) ==
  /\ launcher = "new" /\ handle = "Some" /\ pc = "idle" /\ failed = None
  /\ io[s] = "Some"
  /\ pipe[s] # <<>>
  /\ rd' = [rd EXCEPT ![s] = Append(@, Head(pipe[s]))]
  /\ pipe' = [pipe EXCEPT ![s] = Tail(@)]
  /\ UNCHANGED <<hdlVars, workerVars, ctlVars, child, disp, prog, code,
                 waitsEof, cpos, written, termPending, sent>>

\* the unit value close_input and close_outputs return
Unit(o) == Ret(o, NoExit, <<>>, <<>>)

close_inputUnwrap ==
  /\ CanCall
  /\ nOps' = nOps + 1
  /\ op' = "close_input"
  /\ io' = take(io, 0)
  /\ IF io[0] = "Some"
       THEN rets' = Append(rets, Unit("close_input")) /\ UNCHANGED failed
       ELSE failed' = "input" /\ UNCHANGED rets
  /\ UNCHANGED <<launcher, handle, rtio, exit_status, osWaits, workerVars,
                 childVars, pc, status, got, result, rd, sent>>
close_input ==
  /\ CanCall
  /\ nOps' = nOps + 1
  /\ op' = "close_input"
  /\ io' = take(io, 0)
  /\ rets' = Append(rets, Unit("close_input"))
  /\ UNCHANGED <<launcher, handle, rtio, exit_status, osWaits, workerVars,
                 childVars, pc, status, got, result, failed, rd, sent>>

close_outputsOnlyStdout ==
  /\ CanCall
  /\ nOps' = nOps + 1
  /\ op' = "close_outputs"
  /\ io' = take(io, 1)
  /\ rets' = Append(rets, Unit("close_outputs"))
  /\ UNCHANGED <<launcher, rtio, handle, exit_status, osWaits, workerVars,
                 childVars, pc, status, got, result, failed, rd, sent>>
close_outputs ==
  /\ CanCall
  /\ nOps' = nOps + 1
  /\ op' = "close_outputs"
  /\ io' = take(take(io, 1), 2)
  /\ rets' = Append(rets, Unit("close_outputs"))
  /\ UNCHANGED <<launcher, rtio, handle, exit_status, osWaits, workerVars,
                 childVars, pc, status, got, result, failed, rd, sent>>

FinishClosesOutputs ==
  /\ CanCall
  /\ nOps' = nOps + 1
  /\ io' = take(take(io, 1), 2)
  /\ finish("finish")
  /\ UNCHANGED <<launcher, rtio, exit_status, osWaits, workerVars,
                 childVars, got, failed, rd, sent>>
FinishClosesInput ==
  /\ CanCall
  /\ nOps' = nOps + 1
  /\ io' = take(io, 0)
  /\ finish("finish")
  /\ UNCHANGED <<launcher, rtio, exit_status, osWaits, workerVars,
                 childVars, got, failed, rd, sent>>
Finish ==
  /\ CanCall
  /\ nOps' = nOps + 1
  /\ finish("finish")
  /\ UNCHANGED <<launcher, rtio, io, exit_status, osWaits, workerVars,
                 childVars, got, failed, rd, sent>>

finish_with_output ==
  /\ CanCall
  /\ nOps' = nOps + 1
  /\ FwoCall(io)
  /\ UNCHANGED <<launcher, rtio, handle, exit_status, osWaits, childVars,
                 rets, result, failed, rd, sent>>

\* inner.signal: the request reaches the child while it has not been reaped
Signalled(sig) ==
  /\ sent' = Append(sent, sig)
  /\ IF child = "running" /\ sig = MustDieSignal
       THEN child' = "exited" /\ disp' = ExitSignal(sig)
       ELSE UNCHANGED <<child, disp>>
  /\ termPending' = (termPending \/ (child = "running" /\ sig = PleaseExitSignal))

destroyForcefully ==
  /\ CanCall
  /\ nOps' = nOps + 1
  /\ Signalled(MustDieSignal)
  /\ finish("destroy")
  /\ UNCHANGED <<launcher, rtio, io, exit_status, osWaits, workerVars, got,
                 failed, rd, prog, code, waitsEof, cpos, pipe, written>>
destroy ==
  /\ CanCall
  /\ nOps' = nOps + 1
  /\ Signalled(PleaseExitSignal)
  /\ finish("destroy")
  /\ UNCHANGED <<launcher, rtio, io, exit_status, osWaits, workerVars, got,
                 failed, rd, prog, code, waitsEof, cpos, pipe, written>>

force_destroy ==
  /\ CanCall
  /\ nOps' = nOps + 1
  /\ Signalled(MustDieSignal)
  /\ finish("force_destroy")
  /\ UNCHANGED <<launcher, rtio, io, exit_status, osWaits, workerVars, got,
                 failed, rd, prog, code, waitsEof, cpos, pipe, written>>

\* the handle goes out of scope (also when the task unwinds after fail!):
\* the destructor calls self.finish()
DropWithoutFinish ==
  /\ launcher = "new" /\ handle = "Some" /\ pc = "idle"
  /\ op' = "drop" /\ handle' = "dropped" /\ pc' = "done"
  /\ UNCHANGED <<launcher, rtio, io, exit_status, osWaits, workerVars,
                 childVars, got, failed, rd, sent, nOps, rets, result, status>>
Drop ==
  /\ launcher = "new" /\ handle = "Some" /\ pc = "idle"
  /\ finish("drop")
  /\ UNCHANGED <<launcher, rtio, io, exit_status, osWaits, workerVars,
                 childVars, got, failed, rd, sent, nOps>>

\* the blocked inner.wait() returns: the OS reports the termination
WaitReturn ==
  /\ pc = "wait"
  /\ child = "exited"
  /\ osWaits' = osWaits + 1
  /\ exit_status' = disp
  /\ AfterFinish(op, disp)
  /\ UNCHANGED <<launcher, rtio, io, op, got, workerVars, childVars, failed,
                 rd, sent, nOps>>

\* p.recv(), the first and the second
Recv ==
  /\ pc \in {"recv1", "recv2"}
  /\ chan # <<>>
  /\ got' = Append(got, Head(chan))
  /\ chan' = Tail(chan)
  /\ EnterFwo(fwo_next(pc))
  /\ UNCHANGED <<hdlVars, op, wpc, wend, wbuf, childVars, rets, result,
                 failed, rd, sent, nOps>>

\* the match on the two results, and the return of ProcessOutput
FwoReturn ==
  /\ pc = "match"
  /\ LET r == demux(got[1], got[2]) IN
       IF r.ok
         THEN /\ rets' = Append(rets, Ret("finish_with_output", status,
                                          r.outs, r.errs))
              /\ UNCHANGED failed
              /\ IF launcher = "process_output"
                   THEN /\ result' = "Some"
                        /\ handle' = "dropped" /\ pc' = "done"
                   ELSE /\ pc' = "idle"
                        /\ UNCHANGED <<result, handle>>
         ELSE /\ failed' = "unexpected file numbers"
              /\ IF launcher = "process_output"
                   THEN handle' = "dropped" /\ pc' = "done"
                   ELSE pc' = "idle" /\ UNCHANGED handle
              /\ UNCHANGED <<rets, result>>
  /\ UNCHANGED <<launcher, rtio, io, exit_status, osWaits, op, status, got,
                 workerVars, childVars, rd, sent, nOps>>
(* --------------------------- the drain tasks --------------------------- *)
\* read_to_end takes the next byte out of the pipe
WorkerReadKeepsLast(w) ==
  /\ Runnable(w)
  /\ wend[w] = "Some"
  /\ pipe[w] # <<>>
  /\ wbuf' = [wbuf EXCEPT ![w] = <<Head(pipe[w])>>]
  /\ pipe' = [pipe EXCEPT ![w] = Tail(@)]
  /\ UNCHANGED <<hdlVars, ctlVars, chan, wpc, wend, child, disp, prog, code,
                 waitsEof, cpos, written, termPending, rd, sent>>
WorkerRead(w) ==
  /\ Runnable(w)
  /\ wend[w] = "Some"
  /\ pipe[w] # <<>>
  /\ wbuf' = [wbuf EXCEPT ![w] = Append(@, Head(pipe[w]))]
  /\ pipe' = [pipe EXCEPT ![w] = Tail(@)]
  /\ UNCHANGED <<hdlVars, ctlVars, chan, wpc, wend, child, disp, prog, code,
                 waitsEof, cpos, written, termPending, rd, sent>>

\* read_to_end has seen end-of-stream (the pipe is empty and the child has
\* closed its end), or there was no endpoint: the task sends its result
WorkerSend(w) ==
  /\ Runnable(w)
  /\ wend[w] = None \/ (pipe[w] = <<>> /\ child # "running")
  /\ chan' = Append(chan, <<SendTag(w, wend[w]),
                            IF wend[w] = "Some" THEN wbuf[w] ELSE <<>> >>)
  /\ wpc' = [wpc EXCEPT ![w] = "done"]
  /\ wend' = [wend EXCEPT ![w] = None]
  /\ UNCHANGED <<hdlVars, ctlVars, wbuf, childVars, rd, sent>>

(* ------------------------------ the child ------------------------------ *)
ReaderOpen(s) == io[s] = "Some" \/ wend[s] = "Some"
StdinAtEof == rtio[0] = "InheritFd" \/ io[0] = None

\* the child's next write: to an inherited descriptor, into a pipe with
\* room, or (ignored) into a pipe whose read end is closed
ChildWrite ==
  /\ child = "running"
  /\ cpos <= Len(prog)
  /\ LET s == prog[cpos] IN
       IF rtio[s] = "CreatePipe" /\ ReaderOpen(s)
         THEN /\ Len(pipe[s]) < PipeCap
              /\ pipe' = [pipe EXCEPT ![s] = Append(@, cpos)]
              /\ written' = [written EXCEPT ![s] = Append(@, cpos)]
         ELSE UNCHANGED <<pipe, written>>
  /\ cpos' = cpos + 1
  /\ UNCHANGED <<hdlVars, ctlVars, workerVars, child, disp, prog, code,
                 waitsEof, termPending, rd, sent>>

\* the child is killed by its write into a pipe whose read end is closed
ChildSigpipe ==
  /\ child = "running"
  /\ cpos <= Len(prog)
  /\ rtio[prog[cpos]] = "CreatePipe" /\ ~ReaderOpen(prog[cpos])
  /\ child' = "exited"
  /\ disp' = ExitSignal(13)
  /\ UNCHANGED <<hdlVars, ctlVars, workerVars, prog, code, waitsEof, cpos,
                 pipe, written, termPending, rd, sent>>

\* the child has written everything and exits with its code
ChildExit ==
  /\ child = "running"
  /\ cpos > Len(prog)
  /\ waitsEof => StdinAtEof
  /\ child' = "exited"
  /\ disp' = ExitStatus(code)
  /\ UNCHANGED <<hdlVars, ctlVars, workerVars, prog, code, waitsEof, cpos,
                 pipe, written, termPending, rd, sent>>

\* the child acts on a graceful-termination request
ChildTerm ==
  /\ child = "running"
  /\ termPending
  /\ child' = "exited"
  /\ disp' = ExitSignal(PleaseExitSignal)
  /\ UNCHANGED <<hdlVars, ctlVars, workerVars, prog, code, waitsEof, cpos,
                 pipe, written, termPending, rd, sent>>

(* --------------------------- specifications ---------------------------- *)
Next ==
  \/ /\ handle = "unborn"
     /\ \E o \in AllOptions, ok \in BOOLEAN, p \in Programs, c \in ExitCodes,
           e \in BOOLEAN : New(o, ok, p, c, e)
  \/ /\ handle = "unborn"
     /\ \E ok \in BOOLEAN, p \in Programs, c \in ExitCodes, e \in BOOLEAN :
           ProcessStatus(ok, p, c, e)
  \/ /\ handle = "unborn"
     /\ \E ok \in BOOLEAN, p \in Programs, c \in ExitCodes, e \in BOOLEAN :
           ProcessOutput(ok, p, c, e)
  \/ \E name \in Accessors : Accessor(name)
  \/ \E s \in Outs : ReaderRead(s)
  \/ close_input
  \/ close_outputs
  \/ Finish
  \/ finish_with_output
  \/ destroy
  \/ force_destroy
  \/ Drop
  \/ WaitReturn
  \/ Recv
  \/ FwoReturn
  \/ \E w \in Outs : WorkerRead(w)
  \/ \E w \in Outs : WorkerSend(w)
  \/ ChildWrite
  \/ ChildSigpipe
  \/ ChildExit
  \/ ChildTerm

Spec == Init /\ [][Next]_vars

\* the tasks are scheduled, blocked calls return when they can, and the
\* child runs
Fairness ==
  /\ WF_vars(WaitReturn)
  /\ WF_vars(Recv)
  /\ WF_vars(FwoReturn)
  /\ \A w \in Outs : WF_vars(WorkerRead(w)) /\ WF_vars(WorkerSend(w))
  /\ WF_vars(ChildWrite)
  /\ WF_vars(ChildExit)

\* the capture path on its own: a handle with every stream piped, made by
\* process_output or by Process::new with ProcessOptions::new(), on which the
\* caller reads and calls finish_with_output
CaptureNext ==
  \/ /\ handle = "unborn"
     /\ \E ok \in BOOLEAN, p \in Programs, c \in ExitCodes, e \in BOOLEAN :
           New(ProcessOptionsNew, ok, p, c, e)
  \/ /\ handle = "unborn"
     /\ \E ok \in BOOLEAN, p \in Programs, c \in ExitCodes, e \in BOOLEAN :
           ProcessOutput(ok, p, c, e)
  \/ \E s \in Outs : ReaderRead(s)
  \/ finish_with_output
  \/ WaitReturn
  \/ Recv
  \/ FwoReturn
  \/ \E w \in Outs : WorkerRead(w)
  \/ \E w \in Outs : WorkerSend(w)
  \/ ChildWrite
  \/ ChildExit

CaptureSpec == Init /\ [][CaptureNext]_vars /\ Fairness
(* ------------------------------ properties ----------------------------- *)
\* the state of a stream in the vocabulary of the design
StreamState(i) ==
  IF io[i] = "Some" THEN "Open"
  ELSE IF rtio[i] = "InheritFd" THEN "Inherited" ELSE "Taken"

AllPiped == \A i \in Streams : rtio[i] = "CreatePipe"
InFwo == op = "finish_with_output" /\ pc \in {"wait", "recv1", "recv2", "match"}
Returned(o) == op = o /\ pc \in {"idle", "done"} /\ failed = None

\* finish_with_output has just been called with stdout and stderr Open: both
\* endpoints are with the drain tasks and nothing has been read or sent
FwoCalledOpen ==
  /\ InFwo
  /\ \A w \in Outs : wend[w] = "Some" /\ wpc[w] = "run"

\* both drain tasks have read their stream to end-of-stream
Drained ==
  /\ child = "exited"
  /\ \A w \in Outs : wpc[w] = "done" /\ pipe[w] = <<>>

\* C1: a call of finish_with_output on a handle with all three streams piped
\* and stdout and stderr Open always returns, with both streams read to
\* end-of-stream, however much the child writes to either stream and however
\* the drain tasks, the caller and the child are interleaved.
C1_NoDeadlock ==
  (AllPiped /\ FwoCalledOpen)
    ~> (Returned("finish_with_output") /\ Drained)

\* C1 witness: the child is blocked writing to a full stderr pipe while
\* finish_with_output is waiting for it and the stdout task has nothing to read
C1_Witness ==
  /\ AllPiped /\ InFwo
  /\ child = "running" /\ cpos <= Len(prog) /\ prog[cpos] = 2
  /\ Len(pipe[2]) = PipeCap /\ Len(written[2]) >= PipeCap
  /\ wend[1] = "Some" /\ pipe[1] = <<>>
\* C2 as stated: the caller is never inside the exit wait of
\* finish_with_output before it has received both drain results.
C2_RecvBeforeWait ==
  (op = "finish_with_output" /\ pc = "wait") => Len(got) = 2

\* C2 amended: finish_with_output starts the exit wait right after it has
\* spawned the two drain tasks and before it receives anything; it receives
\* the two results only once the exit status is known, one after the other,
\* and returns only when it has received both.
C2_WaitThenRecv ==
  /\ (op = "finish_with_output" /\ pc = "wait") =>
        /\ got = <<>>
        /\ \A w \in Outs : wpc[w] # "off"
        /\ exit_status = NoExit
  /\ (op = "finish_with_output" /\ pc \in {"recv1", "recv2", "match"}) =>
        /\ exit_status # NoExit /\ status = exit_status
        /\ Len(got) = (CASE pc = "recv1" -> 0 [] pc = "recv2" -> 1
                         [] pc = "match" -> 2)
  /\ Returned("finish_with_output") =>
        Len(got) = 2 /\ exit_status # NoExit

\* C2 witness: both drain results are already in the channel while the caller
\* is still waiting for the exit; the same call later holds one result and is
\* about to receive the other.
C2_Witness ==
  /\ op = "finish_with_output"
  /\ \/ pc = "wait" /\ Len(chan) = 2
     \/ pc = "recv2" /\ Len(got) = 1 /\ Len(chan) = 1 /\ written[1] # <<>>

\* the bytes the child's program writes to stream s, in order
ProgBytes(s) ==
  LET F[n \in 0 .. Len(prog)] ==
        IF n = 0 THEN <<>>
        ELSE IF prog[n] = s THEN Append(F[n - 1], n) ELSE F[n - 1]
  IN F[Len(prog)]

\* finish_with_output was the first thing done with the handle
FirstFwoReturned ==
  /\ Returned("finish_with_output")
  /\ nOps <= 1 /\ Len(rets) = 1
  /\ \A s \in Outs : rd[s] = <<>>

\* C3: when finish_with_output is the first operation on a handle with every
\* stream piped (as in process_output), it returns exactly what the child
\* wrote to stdout as output, exactly what it wrote to stderr as error, and
\* the child's exit status.
C3_CapturedOutput ==
  (AllPiped /\ FirstFwoReturned) =>
     /\ rets[1].output = ProgBytes(1)
     /\ rets[1].error = ProgBytes(2)
     /\ rets[1].status = ExitStatus(code)
     /\ written[1] = ProgBytes(1) /\ written[2] = ProgBytes(2)
     /\ disp = ExitStatus(code)

\* C3 witness: process_output has returned for a child that wrote to both
\* streams, the stderr result having been received first
C3_Witness ==
  /\ launcher = "process_output" /\ result = "Some"
  /\ FirstFwoReturned
  /\ rets[1].output # <<>> /\ rets[1].error # <<>>
  /\ got[1][1] = 2
  /\ code = 255

FinishRets == {i \in 1 .. Len(rets) : rets[i].op = "finish"}
FwoRets    == {i \in 1 .. Len(rets) : rets[i].op = "finish_with_output"}

\* C4: the OS wait is invoked at most once and exactly when the exit result
\* gets set; a set exit result never changes; the caller is blocked in a wait
\* only while the exit result is unset; a finish() on a reaped handle returns
\* the cached status in the same step.
C4_FinishIdempotent ==
  [][ /\ osWaits' <= 1
      /\ (osWaits' = 1) = (exit_status' # NoExit)
      /\ exit_status # NoExit => exit_status' = exit_status
      /\ pc' = "wait" => exit_status' = NoExit
      /\ \A i \in FinishRets' : rets'[i].status = exit_status'
      /\ (exit_status # NoExit /\ op' = "finish" /\ nOps' = nOps + 1) =>
            /\ pc' = "idle"
            /\ rets' = Append(rets, Ret("finish", exit_status, <<>>, <<>>))
    ]_vars

\* C4 witness: finish() has returned twice
C4_Witness ==
  /\ Len(rets) = 2 /\ FinishRets = {1, 2}
  /\ osWaits = 1

\* C5: every finish_with_output after the first returns the status of the
\* first and empty output and error; while it runs, both drain tasks have no
\* endpoint, the caller is not in the exit wait, and the call does not fail.
C5_SecondFwo ==
  /\ \A i \in FwoRets : \A j \in FwoRets :
        i < j => /\ rets[j].status = rets[i].status
                 /\ rets[j].output = <<>> /\ rets[j].error = <<>>
  /\ (FwoRets # {} /\ op = "finish_with_output") =>
        /\ failed = None
        /\ pc # "wait"
        /\ InFwo => \A w \in Outs : wend[w] = None

\* C5 witness: two calls have returned, the first with bytes on both streams
C5_Witness ==
  /\ Len(rets) = 2 /\ FwoRets = {1, 2}
  /\ rets[1].output # <<>> /\ rets[1].error # <<>>
  /\ Returned("finish_with_output")

\* the stream each accessor is for
StreamOf(name) ==
  CASE name = "input" -> 0 [] name = "output" -> 1 [] name = "error" -> 2

\* C6: a call of input(), output() or error() yields the endpoint exactly
\* when the state of its stream is Open and fails otherwise, and it changes
\* neither a stream state nor the exit result.
C6_Accessors ==
  [][ \A name \in Accessors :
        (op' = name /\ nOps' = nOps + 1) =>
           /\ (failed' = None) = (StreamState(StreamOf(name)) = "Open")
           /\ failed' # None => failed' = name
           /\ io' = io /\ rtio' = rtio /\ exit_status' = exit_status
    ]_vars

\* C6 witness: error() has failed on an Inherited stderr while stdout is Open,
\* after output() had returned its endpoint
C6_Witness ==
  /\ failed = "error" /\ nOps = 2
  /\ StreamState(2) = "Inherited" /\ StreamState(1) = "Open"

\* C7 as stated: finish_with_output never returns a ProcessOutput for a child
\* whose stdout or stderr was redirected to an existing file descriptor.
C7_FailsWhenRedirected ==
  FwoRets # {} => (rtio[1] = "CreatePipe" /\ rtio[2] = "CreatePipe")

\* the OS did not create the child
SpawnFailed == handle # "unborn" /\ child = "none"

\* C8: when the OS cannot create the child there is no handle, the launchers
\* return None, and nothing is called on a handle: no wait, no drain task, no
\* return value.
C8_SpawnFailure ==
  SpawnFailed =>
     /\ handle = None
     /\ launcher \in {"process_status", "process_output"} => result = None
     /\ op = "none" /\ pc = "done"
     /\ osWaits = 0 /\ rets = <<>>
     /\ \A w \in Outs : wpc[w] = "off"

\* C8 witness: process_output returned None
C8_Witness ==
  SpawnFailed /\ launcher = "process_output" /\ result = None

\* C9: a handle discarded with its exit result unset waits for the child
\* before it is gone, and a handle that is gone has been waited on exactly
\* once.
C9_NoLeak ==
  [][ /\ handle' = "dropped" => (osWaits' = 1 /\ exit_status' # NoExit)
      /\ (handle = "Some" /\ op' = "drop" /\ op # "drop"
            /\ exit_status = NoExit) =>
            (handle' = "Some" /\ pc' = "wait")
    ]_vars

\* C9 witness: a handle was dropped while the child was still running, and
\* is gone now
C9_Witness ==
  /\ handle = "dropped" /\ op = "drop" /\ rets = <<>>
  /\ launcher = "new"

\* C10: finish() and process_status report ExitStatus(N) for a child that
\* exited with code N; process_status gives the child three inherited
\* descriptors, so no pipe and no drain task exists while it waits.
C10_ExitCode ==
  /\ disp = ExitStatus(code) =>
        \A i \in FinishRets : rets[i].status = ExitStatus(code)
  /\ (launcher = "process_status" /\ handle # "unborn") =>
        /\ \A i \in Streams : rtio[i] = "InheritFd" /\ io[i] = None
        /\ \A s \in Outs : pipe[s] = <<>> /\ wpc[s] = "off"
        /\ result = "Some" =>
              (rets = <<Ret("finish", ExitStatus(code), <<>>, <<>>)>>)

\* C10 witness: process_status returned 255 for a child that wrote to its
\* inherited descriptors and exited with 255
C10_Witness ==
  /\ launcher = "process_status" /\ result = "Some"
  /\ code = 255 /\ prog # <<>>
  /\ Last(rets).status = ExitStatus(255)

\* the two terminating operations and the request each one sends
Destroyers == {"destroy", "force_destroy"}
SignalOf(o) == IF o = "destroy" THEN PleaseExitSignal ELSE MustDieSignal

\* C11: a call of destroy() sends one graceful-termination request and a call
\* of force_destroy() one forceful request, no other step sends anything; the
\* request is already sent whenever the caller is in the wait of either
\* operation, and when the operation has returned the exit result is set.
C11_SignalThenWait ==
  [][ /\ \A o \in Destroyers :
            (op' = o /\ nOps' = nOps + 1) => sent' = Append(sent, SignalOf(o))
      /\ ~(op' \in Destroyers /\ nOps' = nOps + 1) => sent' = sent
      /\ (op' \in Destroyers /\ pc' = "wait") =>
            (sent' # <<>> /\ Last(sent') = SignalOf(op'))
      /\ (op' \in Destroyers /\ pc' = "idle") => exit_status' # NoExit
    ]_vars

\* C11 witness: destroy() has returned for a child that was still running and
\* ended on the graceful request, the only request sent
C11_Witness ==
  /\ op = "destroy" /\ pc = "idle"
  /\ sent = <<PleaseExitSignal>>
  /\ exit_status = ExitSignal(PleaseExitSignal)

\* the calls of o that have returned
RetsOf(o) == {i \in 1 .. Len(rets) : rets[i].op = o}

\* C12: a call of close_input() never fails; it makes an Open stdin Taken and
\* leaves a Taken or Inherited stdin as it is; it changes neither stdout nor
\* stderr nor the exit result, and on a stdin that is not Open it changes
\* nothing of the handle, the drain tasks or the child.
C12_CloseInput ==
  [][ (op' = "close_input" /\ nOps' = nOps + 1) =>
        /\ failed' = None
        /\ rets' = Append(rets, Unit("close_input"))
        /\ StreamState(0)' =
              (IF StreamState(0) = "Open" THEN "Taken" ELSE StreamState(0))
        /\ io'[1] = io[1] /\ io'[2] = io[2] /\ rtio' = rtio
        /\ exit_status' = exit_status
        /\ StreamState(0) # "Open" =>
              UNCHANGED <<hdlVars, workerVars, childVars, rd, sent>>
    ]_vars

\* C12 witness: close_input() has returned twice on a piped stdin, and both
\* outputs are still Open
C12_Witness ==
  /\ rets = <<Unit("close_input"), Unit("close_input")>>
  /\ StreamState(0) = "Taken"
  /\ StreamState(1) = "Open" /\ StreamState(2) = "Open"
  /\ failed = None

\* q is p with zero or more elements after it
IsPrefix(p, q) == Len(p) <= Len(q) /\ SubSeq(q, 1, Len(p)) = p

C14_OneWay ==
  [][ handle # "unborn" =>
        \A i \in Streams :
           \/ StreamState(i)' = StreamState(i)
           \/ StreamState(i) = "Open" /\ StreamState(i)' = "Taken"
    ]_vars

\* C14 witness: after destroy() and finish_with_output() on a handle with an
\* inherited stdout, stdin and stderr are Taken and stdout is still Inherited
C14_Witness ==
  /\ Returned("finish_with_output") /\ nOps = 2 /\ sent # <<>>
  /\ StreamState(0) = "Taken"
  /\ StreamState(1) = "Inherited"
  /\ StreamState(2) = "Taken"

\* C15: when finish_with_output has returned, whichever result arrived first,
\* the bytes received with tag 1 are its output and the bytes received with
\* tag 2 are its error, and these are the bytes the stdout task and the stderr
\* task have read from their own pipes.
C15_Demux ==
  (Returned("finish_with_output") /\ FwoRets # {}) =>
     /\ \A k \in 1 .. 2 :
           /\ got[k][1] = 1 => Last(rets).output = got[k][2]
           /\ got[k][1] = 2 => Last(rets).error = got[k][2]
     /\ Last(rets).output = wbuf[1]
     /\ Last(rets).error = wbuf[2]

\* C15 witness: the stdout result was received first, the stderr result
\* second, and the two carry different bytes
C15_Witness ==
  /\ Returned("finish_with_output") /\ launcher = "new"
  /\ got[1][1] = 1 /\ got[2][1] = 2
  /\ got[1][2] # <<>> /\ got[2][2] # <<>>
  /\ Last(rets).output = got[1][2]

\* the drain tasks that have sent their result, and the results that exist
DoneTasks == {w \in Outs : wpc[w] = "done"}
Results == got \o chan

\* C16: the caller never fails with "unexpected file numbers"; the results
\* that exist (received or still in the channel) are one per task that has
\* sent, each with that task's tag; at the match the caller holds two results
\* with the two tags and the channel is empty, and it is still empty, with
\* both tasks done, when the call has returned.
C16_NoUnexpectedTags ==
  /\ failed # "unexpected file numbers"
  /\ Len(Results) = Cardinality(DoneTasks)
  /\ {Results[k][1] : k \in 1 .. Len(Results)} = DoneTasks
  /\ (pc = "match" \/ (Returned("finish_with_output") /\ FwoRets # {})) =>
        /\ Len(got) = 2 /\ chan = <<>>
        /\ {got[1][1], got[2][1]} = {1, 2}
        /\ DoneTasks = Outs

\* C16 witness: the call has returned on a handle with an inherited stdout,
\* whose task sent an empty result with tag 1 before the stderr task sent the
\* bytes it had read
C16_Witness ==
  /\ Returned("finish_with_output") /\ FwoRets # {}
  /\ StreamState(1) = "Inherited"
  /\ got[1] = <<1, <<>> >> /\ got[2][1] = 2 /\ got[2][2] # <<>>

\* C17: while the caller is inside finish_with_output (the drain tasks are
\* spawned, the exit wait or the receives are under way) stdin is not Open;
\* and on a handle with every stream piped whose child exits only after
\* end-of-input on stdin, a call of finish_with_output always returns.
C17_StdinClosedFirst ==
  /\ [](InFwo => StreamState(0) # "Open")
  /\ (AllPiped /\ waitsEof /\ FwoCalledOpen /\ child = "running")
        ~> Returned("finish_with_output")

\* C17 witness: the child has written everything and only waits for
\* end-of-input, which the closed stdin gives it, while the caller is in the
\* exit wait of finish_with_output
C17_Witness ==
  /\ AllPiped /\ waitsEof /\ InFwo /\ pc = "wait"
  /\ child = "running" /\ cpos > Len(prog)
  /\ StreamState(0) = "Taken"
  /\ written[1] # <<>>

\* finish() was the first operation on the handle and the caller is in its
\* wait, while the child's next write is to a pipe that is full
FinishOnFullPipe ==
  /\ launcher = "new" /\ handle = "Some"
  /\ op = "finish" /\ pc = "wait" /\ nOps = 1
  /\ child = "running" /\ cpos <= Len(prog)
  /\ rtio[prog[cpos]] = "CreatePipe"
  /\ Len(pipe[prog[cpos]]) >= PipeCap

\* C18: when the caller is waiting in a finish() that was its first operation
\* and the child's next write is to a full pipe, that stream is still Open
\* (nobody drains it, and the child is not told that nobody will) and no step
\* is possible any more: the child never writes or exits and finish() never
\* returns.
C18_FinishBlocksForever ==
  FinishOnFullPipe =>
     /\ StreamState(prog[cpos]) = "Open"
     /\ wpc = [w \in Outs |-> "off"]
     /\ ~ENABLED Next

\* C18 witness: the caller, who has read nothing, waits in finish() for a
\* child that waits for room in the full stdout pipe
C18_Witness ==
  /\ FinishOnFullPipe
  /\ prog[cpos] = 1
  /\ \A s \in Outs : rd[s] = <<>>
  /\ exit_status = NoExit

\* finish_with_output has returned for the first time, and every operation
\* before it was a finish(); the caller may have read through output() and
\* error() in between
FwoAfterReads ==
  /\ launcher = "new" /\ Returned("finish_with_output")
  /\ Len(rets) = nOps
  /\ FwoRets = {Len(rets)}
  /\ FinishRets = 1 .. (Len(rets) - 1)

\* the bytes of stream s that finish_with_output returned
Captured(s) == IF s = 1 THEN Last(rets).output ELSE Last(rets).error

\* C19: when finish_with_output returns after the caller has read a prefix of
\* a piped stdout or stderr through its reader, or has called finish(), or
\* both, what the caller has read followed by what the call returns for the
\* stream is exactly what the child wrote to it, which is everything its
\* program writes; nothing is left in the pipe.
C19_RemainingOutput ==
  FwoAfterReads =>
     \A s \in Outs :
        rtio[s] = "CreatePipe" =>
           /\ rd[s] \o Captured(s) = written[s]
           /\ written[s] = ProgBytes(s)
           /\ pipe[s] = <<>>

\* C19 witness: the caller read the first byte of stdout, called finish(),
\* then finish_with_output, which returned the rest
C19_Witness ==
  /\ FwoAfterReads /\ FinishRets # {}
  /\ rd[1] # <<>> /\ Captured(1) # <<>>

\* C20: a call of close_outputs() makes an Open stdout or stderr Taken, reads
\* nothing from either pipe, and changes neither stdin nor the exit result;
\* every finish_with_output that returns after a close_outputs() returns
\* empty output and error together with the exit result.
C20_CloseOutputs ==
  /\ [][ (op' = "close_outputs" /\ nOps' = nOps + 1) =>
           /\ failed' = None
           /\ \A s \in Outs :
                 StreamState(s)' =
                   (IF StreamState(s) = "Open" THEN "Taken" ELSE StreamState(s))
           /\ io'[0] = io[0] /\ rtio' = rtio
           /\ exit_status' = exit_status
           /\ UNCHANGED <<pipe, written, rd, workerVars>>
       ]_vars
  /\ [](\A i \in RetsOf("close_outputs") : \A j \in FwoRets :
          i < j => /\ rets[j].output = <<>> /\ rets[j].error = <<>>
                   /\ rets[j].status = exit_status
                   /\ exit_status # NoExit)

\* C20 witness: close_outputs() was called with a byte of the child unread in
\* each pipe; the finish_with_output after it has returned nothing of them
C20_Witness ==
  /\ Returned("finish_with_output")
  /\ Len(rets) = 2 /\ rets[1] = Unit("close_outputs")
  /\ pipe[1] # <<>> /\ pipe[2] # <<>>
  /\ Last(rets).output = <<>> /\ Last(rets).error = <<>>

\* C21 as stated: a call of destroy() or force_destroy() on a handle whose
\* exit result is already set sends no termination request.
C21_NoSignalAfterReap ==
  [][ (op' \in Destroyers /\ nOps' = nOps + 1 /\ exit_status # NoExit) =>
        sent' = sent
    ]_vars
====
